---- MODULE Spec2Model ----
(***************************************************************************)
(* Connected components by union-find.                                     *)
(*                                                                         *)
(* contract.py : sign-encoded forest, union by size, path contraction.     *)
(* balance.py  : sign-encoded forest, union by size, no contraction.       *)
(*                                                                         *)
(* A Forest is a Python list; it is modelled as a sequence whose element   *)
(* k+1 is the list's slot k.  A slot >= 0 is a parent pointer, a slot < 0  *)
(* is the negated size of the tree rooted there.                           *)
(***************************************************************************)
EXTENDS Integers, Sequences, FiniteSets, TLC

\* Largest number of nodes n that components() is run with.
MaxN == 4
\* Largest number of distinct edges handed to union().
MaxEdges == 4
\* The count of consecutive root(f, v) calls saturates here.
MaxStreak == 3
\* One larger n, run with the edges of DeepPairs only: the smallest n at which
\* union by size builds a path of three parent pointers.
DeepN == 8

VARIABLES
    n,        \* components(n, ...): number of nodes
    f,        \* contract.py: the forest `components`
    b,        \* balance.py: the forest `components`, fed the same edges
    edges,    \* the edges handed to union() so far, each as the set {v, w}
    op,       \* the last call: "init", "root" or "union"
    av, aw,   \* the last call's arguments (aw = av for a root call)
    ret,      \* {} or {r}: the value the last root call returned
    err,      \* how the last call ended: "none" or the exception raised
    pre,      \* f as it was when the last call started
    preb,     \* b as it was when the last call started
    streak,   \* how many root(f, av) calls in a row, same av, ended at this one
    first,    \* f as it was when the first call of that streak started
    firstRet, \* what the first call of that streak returned
    comp,     \* simple.py: the list `components`, fed the same edges
    g,        \* forest.py: the forest `components`, fed the same edges
    thr,      \* two root(f, v) calls in progress at once: each one's locals
    overlap,  \* TRUE once both of those calls were in progress together
    ex        \* explore.py: the locals of reachable(a, neighbors)

\* The variables of the baselines, of the overlapping calls and of explore.py.
aside == <<comp, g, thr, overlap, ex>>

vars == <<n, f, b, edges, op, av, aw, ret, err, pre, preb, streak, first, firstRet,
          comp, g, thr, overlap, ex>>

----------------------------------------------------------------------------
(* Python list indexing: index i of a list of length L is slot i when       *)
(* 0 <= i < L, slot L + i when -L <= i < 0, and IndexError otherwise.       *)

InIndex(l, i) == -Len(l) <= i /\ i < Len(l)

Slot(l, i) == IF i < 0 THEN Len(l) + i ELSE i

At(l, i) == l[Slot(l, i) + 1]

Store(l, i, x) == [l EXCEPT ![Slot(l, i) + 1] = x]

----------------------------------------------------------------------------
(* contract.py *)

is_size(v) == v < 0

is_node(v) == v >= 0

\* size(v): asserts is_size(v); the assertion is checked by the caller below.
size(v) == 0 - v

to_size(v) == 0 - v

\* Lines 64-66: run up the path.  fuel bounds the unrolling; running out of
\* it means the while loop never ends.
RECURSIVE climb(_, _, _, _)
climb(l, r, parent, fuel) ==
    IF ~is_node(parent) THEN [err |-> "none", root |-> r, parent |-> parent]
    ELSE IF fuel = 0 THEN [err |-> "diverge", root |-> r, parent |-> parent]
    ELSE IF ~InIndex(l, parent) THEN [err |-> "IndexError", root |-> r, parent |-> parent]
    ELSE climb(l, parent, At(l, parent), fuel - 1)

\* Variant of contract: the path is pointed back at the node the walk came
\* from, "v, f[v] = f[v], v", instead of at the root.
RECURSIVE contract_cycle(_, _, _, _)
contract_cycle(l, v, r, fuel) ==
    IF ~InIndex(l, v) THEN [err |-> "IndexError", f |-> l]
    ELSE IF At(l, v) = r THEN [err |-> "none", f |-> l]
    ELSE IF fuel = 0 THEN [err |-> "diverge", f |-> l]
    ELSE LET v2 == At(l, v) IN
         IF ~InIndex(l, v2) THEN [err |-> "IndexError", f |-> l]
         ELSE contract_cycle(Store(l, v2, v), v2, r, fuel - 1)

\* Variant of contract: the loop runs "while v != root", one turn too many,
\* and stores the root into the root's own slot.
RECURSIVE contract_overrun(_, _, _, _)
contract_overrun(l, v, r, fuel) ==
    IF ~InIndex(l, v) THEN [err |-> "IndexError", f |-> l]
    ELSE IF v = r THEN [err |-> "none", f |-> l]
    ELSE IF fuel = 0 THEN [err |-> "diverge", f |-> l]
    ELSE LET v2 == At(l, v) IN
         IF ~InIndex(l, v2) THEN [err |-> "IndexError", f |-> l]
         ELSE contract_overrun(Store(l, v2, r), v2, r, fuel - 1)

\* Lines 72-73: while f[v] != root: v, f[v] = f[v], root
\* The right-hand side (f[v], root) is evaluated first, then v is assigned,
\* then f[v] is assigned with the NEW v.
RECURSIVE contract(_, _, _, _)
contract(l, v, r, fuel) ==
    IF ~InIndex(l, v) THEN [err |-> "IndexError", f |-> l]
    ELSE IF At(l, v) = r THEN [err |-> "none", f |-> l]
    ELSE IF fuel = 0 THEN [err |-> "diverge", f |-> l]
    ELSE LET v2 == At(l, v) IN
         IF ~InIndex(l, v2) THEN [err |-> "IndexError", f |-> l]
         ELSE contract(Store(l, v2, r), v2, r, fuel - 1)

\* Variant of root: the early return of lines 60-61 left out.
root_noearly(l, v) ==
    IF ~InIndex(l, v) THEN [err |-> "IndexError", f |-> l, ret |-> {}]
    ELSE LET c == climb(l, v, At(l, v), Len(l) + 1) IN
         IF c.err # "none" THEN [err |-> c.err, f |-> l, ret |-> {}]
         ELSE IF ~is_node(c.root) \/ ~is_size(c.parent)
              THEN [err |-> "AssertionError", f |-> l, ret |-> {}]
         ELSE LET k == contract(l, v, c.root, Len(l) + 1) IN
              IF k.err # "none" THEN [err |-> k.err, f |-> k.f, ret |-> {}]
              ELSE [err |-> "none", f |-> k.f, ret |-> {c.root}]

\* root(f, v), lines 57-74.
root(l, v) ==
    IF ~InIndex(l, v) THEN [err |-> "IndexError", f |-> l, ret |-> {}]
    ELSE IF is_size(At(l, v)) THEN [err |-> "none", f |-> l, ret |-> {v}]
    ELSE LET c == climb(l, v, At(l, v), Len(l) + 1) IN
         IF c.err # "none" THEN [err |-> c.err, f |-> l, ret |-> {}]
         ELSE IF ~is_node(c.root) \/ ~is_size(c.parent)
              THEN [err |-> "AssertionError", f |-> l, ret |-> {}]
         ELSE LET k == contract(l, v, c.root, Len(l) + 1) IN
              IF k.err # "none" THEN [err |-> k.err, f |-> k.f, ret |-> {}]
              ELSE [err |-> "none", f |-> k.f, ret |-> {c.root}]

\* Variant of link: the swap of line 91 written as two assignments,
\* "root_v = root_w; root_w = root_v", which loses root_v.
link_badswap(l, root_v, root_w) ==
    IF ~is_size(At(l, root_w)) \/ ~is_size(At(l, root_v))
    THEN [err |-> "AssertionError", f |-> l]
    ELSE LET size_w == size(At(l, root_w))
             size_v == size(At(l, root_v))
             new_size == to_size(size_w + size_v)
             rv == IF size_w < size_v THEN root_w ELSE root_v
             rw == root_w
         IN [err |-> "none", f |-> Store(Store(l, rv, rw), rw, new_size)]

\* Variant of link: the comparison of line 90 turned round, "size_w > size_v".
link_flip(l, root_v, root_w) ==
    IF ~is_size(At(l, root_w)) \/ ~is_size(At(l, root_v))
    THEN [err |-> "AssertionError", f |-> l]
    ELSE LET size_w == size(At(l, root_w))
             size_v == size(At(l, root_v))
             new_size == to_size(size_w + size_v)
             rv == IF size_w > size_v THEN root_w ELSE root_v
             rw == IF size_w > size_v THEN root_v ELSE root_w
         IN [err |-> "none", f |-> Store(Store(l, rv, rw), rw, new_size)]

\* Variant of link: line 87 written "to_size(size_w + 1)", as if one node
\* were added.
link_plusone(l, root_v, root_w) ==
    IF ~is_size(At(l, root_w)) \/ ~is_size(At(l, root_v))
    THEN [err |-> "AssertionError", f |-> l]
    ELSE LET size_w == size(At(l, root_w))
             size_v == size(At(l, root_v))
             new_size == to_size(size_w + 1)
             rv == IF size_w < size_v THEN root_w ELSE root_v
             rw == IF size_w < size_v THEN root_v ELSE root_w
         IN [err |-> "none", f |-> Store(Store(l, rv, rw), rw, new_size)]

\* Lines 86-93 of union: link the two roots, larger size on top.
link(l, root_v, root_w) ==
    IF ~is_size(At(l, root_w)) \/ ~is_size(At(l, root_v))
    THEN [err |-> "AssertionError", f |-> l]
    ELSE LET size_w == size(At(l, root_w))
             size_v == size(At(l, root_v))
             new_size == to_size(size_w + size_v)
             rv == IF size_w < size_v THEN root_w ELSE root_v
             rw == IF size_w < size_v THEN root_v ELSE root_w
         IN [err |-> "none", f |-> Store(Store(l, rv, rw), rw, new_size)]

\* Variant of union: the test of lines 81-82 left out.
union_noearly(l, v, w) ==
    LET a == root(l, v) IN
    IF a.err # "none" THEN [err |-> a.err, f |-> a.f]
    ELSE LET c == root(a.f, w) IN
         IF c.err # "none" THEN [err |-> c.err, f |-> c.f]
         ELSE link(c.f, CHOOSE x \in a.ret : TRUE, CHOOSE x \in c.ret : TRUE)

\* Variant of union: line 92 written "f[v] = root_w", which moves v and
\* leaves the rest of v's tree behind.
union_attach_node(l, v, w) ==
    LET a == root(l, v) IN
    IF a.err # "none" THEN [err |-> a.err, f |-> a.f]
    ELSE LET c == root(a.f, w) IN
         IF c.err # "none" THEN [err |-> c.err, f |-> c.f]
         ELSE IF a.ret = c.ret THEN [err |-> "none", f |-> c.f]
         ELSE LET root_v == CHOOSE x \in a.ret : TRUE
                  root_w == CHOOSE x \in c.ret : TRUE
                  size_w == size(At(c.f, root_w))
                  size_v == size(At(c.f, root_v))
                  rw == IF size_w < size_v THEN root_v ELSE root_w
                  x == IF size_w < size_v THEN w ELSE v
              IN [err |-> "none",
                  f |-> Store(Store(c.f, x, rw), rw, to_size(size_w + size_v))]

\* union(f, v, w), lines 77-93.
union(l, v, w) ==
    LET a == root(l, v) IN
    IF a.err # "none" THEN [err |-> a.err, f |-> a.f]
    ELSE LET c == root(a.f, w) IN
         IF c.err # "none" THEN [err |-> c.err, f |-> c.f]
         ELSE IF a.ret = c.ret THEN [err |-> "none", f |-> c.f]
         ELSE link(c.f, CHOOSE x \in a.ret : TRUE, CHOOSE x \in c.ret : TRUE)

----------------------------------------------------------------------------
(* contract.py, root(f, v) one list access at a time *)

\* Variant of the test of line 72: v itself compared with root, not f[v].
still_below_local(l, v, r) == v # r

\* Line 72: the test of the contraction loop, "f[v] != root".
still_below(l, v, r) == At(l, v) # r

\* The call has raised: no further step.
raised(l, c, e) == [f |-> l, c |-> [c EXCEPT !.pc = e]]

\* One step of a root(f, v) call with locals c on the list l: at most one read
\* or one write of the list.  c.pc is the line the call is at; "l73" is the
\* right-hand side of line 73 and "l73w" its two assignments, v first.
root_step(l, c) ==
    CASE c.pc = "l60" ->
           IF ~InIndex(l, c.v) THEN raised(l, c, "IndexError")
           ELSE IF is_size(At(l, c.v))
                THEN [f |-> l, c |-> [c EXCEPT !.pc = "done", !.ret = {c.v}]]
                ELSE [f |-> l, c |-> [c EXCEPT !.pc = "l64"]]
      [] c.pc = "l64" ->
           IF ~InIndex(l, c.v) THEN raised(l, c, "IndexError")
           ELSE [f |-> l, c |-> [c EXCEPT !.pc = "l65", !.root = c.v,
                                          !.parent = At(l, c.v)]]
      [] c.pc = "l65" ->
           IF is_node(c.parent)
           THEN IF ~InIndex(l, c.parent) THEN raised(l, c, "IndexError")
                ELSE [f |-> l, c |-> [c EXCEPT !.root = c.parent,
                                               !.parent = At(l, c.parent)]]
           ELSE IF ~is_node(c.root) \/ ~is_size(c.parent)
                THEN raised(l, c, "AssertionError")
                ELSE [f |-> l, c |-> [c EXCEPT !.pc = "l72"]]
      [] c.pc = "l72" ->
           IF ~InIndex(l, c.v) THEN raised(l, c, "IndexError")
           ELSE IF still_below(l, c.v, c.root)
                THEN [f |-> l, c |-> [c EXCEPT !.pc = "l73"]]
                ELSE [f |-> l, c |-> [c EXCEPT !.pc = "done", !.ret = {c.root}]]
      [] c.pc = "l73" ->
           IF ~InIndex(l, c.v) THEN raised(l, c, "IndexError")
           ELSE [f |-> l, c |-> [c EXCEPT !.pc = "l73w", !.rhs = At(l, c.v)]]
      [] c.pc = "l73w" ->
           IF ~InIndex(l, c.rhs) THEN raised(l, [c EXCEPT !.v = c.rhs], "IndexError")
           ELSE [f |-> Store(l, c.rhs, c.root),
                 c |-> [c EXCEPT !.pc = "l72", !.v = c.rhs]]

----------------------------------------------------------------------------
(* balance.py *)

\* root(f, v), lines 52-57.
RECURSIVE balance_climb(_, _, _, _)
balance_climb(l, v, parent, fuel) ==
    IF ~is_node(parent) THEN [err |-> "none", ret |-> {v}]
    ELSE IF fuel = 0 THEN [err |-> "diverge", ret |-> {}]
    ELSE IF ~InIndex(l, parent) THEN [err |-> "IndexError", ret |-> {}]
    ELSE balance_climb(l, parent, At(l, parent), fuel - 1)

balance_root(l, v) ==
    IF ~InIndex(l, v) THEN [err |-> "IndexError", ret |-> {}]
    ELSE balance_climb(l, v, At(l, v), Len(l) + 1)

\* Lines 69-76 of union.
balance_link(l, root_v, root_w) ==
    IF ~is_size(At(l, root_w)) \/ ~is_size(At(l, root_v))
    THEN [err |-> "AssertionError", f |-> l]
    ELSE LET size_w == size(At(l, root_w))
             size_v == size(At(l, root_v))
             new_size == to_size(size_w + size_v)
             rv == IF size_w < size_v THEN root_w ELSE root_v
             rw == IF size_w < size_v THEN root_v ELSE root_w
         IN [err |-> "none", f |-> Store(Store(l, rv, rw), rw, new_size)]

\* union(f, v, w), lines 60-76.
balance_union(l, v, w) ==
    LET a == balance_root(l, v) IN
    IF a.err # "none" THEN [err |-> a.err, f |-> l]
    ELSE LET c == balance_root(l, w) IN
         IF c.err # "none" THEN [err |-> c.err, f |-> l]
         ELSE IF a.ret = c.ret THEN [err |-> "none", f |-> l]
         ELSE balance_link(l, CHOOSE x \in a.ret : TRUE, CHOOSE x \in c.ret : TRUE)

----------------------------------------------------------------------------
(* simple.py *)

\* Lines 34-36 of union: for i, c in enumerate(comp): if c == cw: comp[i] = cv
\* The list is read slot by slot while it is being written.
RECURSIVE relabel(_, _, _, _)
relabel(l, i, cv, cw) ==
    IF i >= Len(l) THEN l
    ELSE IF At(l, i) = cw THEN relabel(Store(l, i, cv), i + 1, cv, cw)
    ELSE relabel(l, i + 1, cv, cw)

\* Variant of union: the flip of lines 31-32 left out.
simple_union_noflip(l, v, w) ==
    IF ~InIndex(l, v) \/ ~InIndex(l, w) THEN [err |-> "IndexError", f |-> l]
    ELSE LET cv == At(l, v)
             cw == At(l, w)
         IN IF cv = cw THEN [err |-> "none", f |-> l]
            ELSE [err |-> "none", f |-> relabel(l, 0, cv, cw)]

\* union(comp, v, w), lines 22-36.
simple_union(l, v, w) ==
    IF ~InIndex(l, v) \/ ~InIndex(l, w) THEN [err |-> "IndexError", f |-> l]
    ELSE LET cv == At(l, v)
             cw == At(l, w)
         IN IF cv = cw THEN [err |-> "none", f |-> l]
            ELSE IF cw < cv THEN [err |-> "none", f |-> relabel(l, 0, cw, cv)]
            ELSE [err |-> "none", f |-> relabel(l, 0, cv, cw)]

\* One turn of the loop of components(), lines 54-56.
simple_components_step(l, v, w) ==
    IF ~(0 <= v /\ v < Len(l) /\ 0 <= w /\ w < Len(l))
    THEN [err |-> "AssertionError", f |-> l]
    ELSE simple_union(l, v, w)

----------------------------------------------------------------------------
(* forest.py *)

\* root(f, v), lines 25-29: a root is its own parent.
RECURSIVE forest_climb(_, _, _)
forest_climb(l, v, fuel) ==
    IF ~InIndex(l, v) THEN [err |-> "IndexError", ret |-> {}]
    ELSE IF At(l, v) = v THEN [err |-> "none", ret |-> {v}]
    ELSE IF fuel = 0 THEN [err |-> "diverge", ret |-> {}]
    ELSE forest_climb(l, At(l, v), fuel - 1)

forest_root(l, v) == forest_climb(l, v, Len(l) + 1)

\* Variant of union: line 43 written "f[w] = root_v", which moves w and
\* leaves the rest of w's tree behind.
forest_union_attach_node(l, v, w) ==
    LET a == forest_root(l, v)
        c == forest_root(l, w)
    IN IF a.err # "none" THEN [err |-> a.err, f |-> l]
       ELSE IF c.err # "none" THEN [err |-> c.err, f |-> l]
       ELSE IF a.ret = c.ret THEN [err |-> "none", f |-> l]
       ELSE [err |-> "none", f |-> Store(l, w, CHOOSE x \in a.ret : TRUE)]

\* union(f, v, w), lines 32-43.
forest_union(l, v, w) ==
    LET a == forest_root(l, v)
        c == forest_root(l, w)
    IN IF a.err # "none" THEN [err |-> a.err, f |-> l]
       ELSE IF c.err # "none" THEN [err |-> c.err, f |-> l]
       ELSE IF a.ret = c.ret THEN [err |-> "none", f |-> l]
       ELSE [err |-> "none",
             f |-> Store(l, CHOOSE x \in c.ret : TRUE, CHOOSE x \in a.ret : TRUE)]

\* One turn of the loop of components(), lines 62-64.
forest_components_step(l, v, w) ==
    IF ~(0 <= v /\ v < Len(l) /\ 0 <= w /\ w < Len(l))
    THEN [err |-> "AssertionError", f |-> l]
    ELSE forest_union(l, v, w)

----------------------------------------------------------------------------
(* explore.py *)

\* build_neighbours(n, edges), lines 6-15.  An edge is kept as the set of its
\* ends; both ends get the other end as neighbour.
RECURSIVE build_neighbours(_, _)
build_neighbours(k, es) ==
    IF es = {} THEN [i \in 1 .. k |-> {}]
    ELSE LET e == CHOOSE x \in es : TRUE
             v == CHOOSE x \in e : TRUE
             w == CHOOSE x \in e : e = {v, x}
             nb == build_neighbours(k, es \ {e})
         IN Store(Store(nb, v, At(nb, v) \cup {w}), w,
                  IF v = w THEN At(nb, v) \cup {w} ELSE At(nb, w) \cup {v})

\* Variant of the for loop: line 25, seen.add(w), left out.
RECURSIVE visit_each_noseen(_, _)
visit_each_noseen(st, W) ==
    IF W = {} THEN st
    ELSE LET w == CHOOSE x \in W : TRUE IN
         IF w \in st.seen THEN visit_each_noseen(st, W \ {w})
         ELSE visit_each_noseen([st EXCEPT !.unprocessed = @ \cup {w},
                                    !.added = Store(@, w, IF At(@, w) < 2 THEN At(@, w) + 1 ELSE 2)],
                         W \ {w})

\* Lines 23-26: the for loop over the neighbours W of the popped node.  The
\* count of additions to unprocessed stops at two.
RECURSIVE visit_each(_, _)
visit_each(st, W) ==
    IF W = {} THEN st
    ELSE LET w == CHOOSE x \in W : TRUE IN
         IF w \in st.seen THEN visit_each(st, W \ {w})
         ELSE visit_each([st EXCEPT !.seen = @ \cup {w},
                                    !.unprocessed = @ \cup {w},
                                    !.added = Store(@, w, IF At(@, w) < 2 THEN At(@, w) + 1 ELSE 2)],
                         W \ {w})

\* Lines 22-26: one turn of the while loop, v the node that pop() hands out.
\* The count of turns stops one past the number of nodes.
visit(st, v) ==
    visit_each([st EXCEPT !.unprocessed = @ \ {v},
                          !.turns = IF @ <= Len(st.neighbors) THEN @ + 1 ELSE @],
               At(st.neighbors, v))

----------------------------------------------------------------------------
(* The callers *)

\* The nodes of a run, 0 <= ... < n.
Nodes == 0 .. (n - 1)

\* The node arguments tried: every node, and -1 and n on either side.
Args == (0 - 1) .. n

\* root(comp, v) == root(comp, w), as the doctest of components() and line 81
\* of union evaluate it: two calls in a row, the second on the forest the
\* first left behind.
same_root(l, v, w) ==
    LET a == root(l, v)
        c == root(a.f, w)
    IN a.err = "none" /\ c.err = "none" /\ a.ret = c.ret

\* One turn of the loop of components(), lines 113-114: the assertion, then
\* union.
components_step(l, v, w) ==
    IF ~(0 <= v /\ v < Len(l) /\ 0 <= w /\ w < Len(l))
    THEN [err |-> "AssertionError", f |-> l]
    ELSE union(l, v, w)

\* The same turn in balance.py, lines 96-97.
balance_components_step(l, v, w) ==
    IF ~(0 <= v /\ v < Len(l) /\ 0 <= w /\ w < Len(l))
    THEN [err |-> "AssertionError", f |-> l]
    ELSE balance_union(l, v, w)

\* The edges tried.  Up to MaxN nodes: every pair of arguments.  With DeepN
\* nodes: the pairs (v, v + 2^k) with v a multiple of 2^(k+1), in any order,
\* which merge trees of equal size into the deepest tree union by size allows.
DeepPairs ==
    {p \in Nodes \X Nodes :
        \E k \in 0 .. n : p[2] - p[1] = 2^k /\ p[1] % (2^(k + 1)) = 0}

Pairs == IF n <= MaxN THEN Args \X Args ELSE DeepPairs

\* The two callers whose root calls may overlap.
Threads == {"t1", "t2"}

\* The locals of a caller that has not called root yet.
NoCall == [pc |-> "idle", v |-> 0, root |-> 0, parent |-> 0, rhs |-> 0, ret |-> {}]

\* The locals of reachable() before it is called.
NoSearch == [pc |-> "off", a |-> 0, neighbors |-> <<>>, seen |-> {},
             unprocessed |-> {}, added |-> <<>>, turns |-> 0]

\* components(), line 111 (contract.py), line 94 (balance.py), line 53
\* (simple.py) and line 61 (forest.py).
Init ==
    /\ n \in (0 .. MaxN) \cup {DeepN}
    /\ f = [i \in 1 .. n |-> to_size(1)]
    /\ b = [i \in 1 .. n |-> to_size(1)]
    /\ edges = {}
    /\ op = "init"
    /\ av = 0
    /\ aw = 0
    /\ ret = {}
    /\ err = "none"
    /\ pre = f
    /\ preb = b
    /\ streak = 0
    /\ first = f
    /\ firstRet = {}
    /\ comp = [i \in 1 .. n |-> i - 1]
    /\ g = [i \in 1 .. n |-> i - 1]
    /\ thr = [t \in Threads |-> NoCall]
    /\ overlap = FALSE
    /\ ex = NoSearch

\* A turn of the loop of components() on both forests; the call is recorded.
Union(v, w) ==
    /\ op' = "union"
    /\ av' = v
    /\ aw' = w
    /\ ret' = {}
    /\ pre' = f
    /\ preb' = b
    /\ LET s == components_step(f, v, w)
       IN f' = s.f /\ err' = s.err
    /\ b' = balance_components_step(b, v, w).f
    /\ UNCHANGED <<aside, n, edges, streak, first, firstRet>>

\* A call root(f, v) on the forest of contract.py; the call is recorded.
Root(v) ==
    LET r == root(f, v)
    IN /\ op' = "root"
       /\ av' = v
       /\ aw' = v
       /\ pre' = f
       /\ preb' = b
       /\ f' = r.f
       /\ ret' = r.ret
       /\ err' = r.err
       /\ UNCHANGED <<aside, n, b, edges, streak, first, firstRet>>

Next ==
    \/ \E p \in Pairs : Union(p[1], p[2])
    \/ \E v \in Args : Root(v)

Spec == Init /\ [][Next]_vars

\* components(n, edges) with the list of edges kept: a turn of its loop for an
\* edge over [0, n), the edge remembered.
UnionE(v, w) ==
    /\ n > MaxN \/ Cardinality(edges \cup {{v, w}}) <= MaxEdges
    /\ edges' = edges \cup {{v, w}}
    /\ f' = components_step(f, v, w).f
    /\ b' = balance_components_step(b, v, w).f
    /\ UNCHANGED <<aside, n, op, av, aw, ret, err, pre, preb, streak, first, firstRet>>

\* A call root(f, v) between or after the turns.
RootE(v) ==
    /\ f' = root(f, v).f
    /\ UNCHANGED <<aside, n, b, edges, op, av, aw, ret, err, pre, preb, streak, first, firstRet>>

NextE ==
    \/ \E p \in Pairs \cap (Nodes \X Nodes) : UnionE(p[1], p[2])
    \/ \E v \in Nodes : RootE(v)

SpecE == Init /\ [][NextE]_vars

\* The same calls with the root calls counted: a turn of the loop of
\* components() ends any run of root calls.  Only root calls are recorded
\* here, so pre is the forest the turn leaves.
UnionS(v, w) ==
    /\ op' = "union"
    /\ f' = components_step(f, v, w).f
    /\ b' = balance_components_step(b, v, w).f
    /\ streak' = 0
    /\ first' = f'
    /\ firstRet' = {}
    /\ ret' = {}
    /\ err' = components_step(f, v, w).err
    /\ pre' = f'
    /\ UNCHANGED <<aside, n, edges, av, aw, preb>>

\* A call root(f, v), counted when it repeats the call before it.
RootS(v) ==
    LET r == root(f, v)
        again == op = "root" /\ av = v
    IN /\ op' = "root"
       /\ av' = v
       /\ pre' = f
       /\ f' = r.f
       /\ ret' = r.ret
       /\ err' = r.err
       /\ streak' = IF ~again THEN 1
                    ELSE IF streak < MaxStreak THEN streak + 1 ELSE streak
       /\ first' = IF again THEN first ELSE f
       /\ firstRet' = IF again THEN firstRet ELSE r.ret
       /\ UNCHANGED <<aside, n, b, edges, aw, preb>>

NextS ==
    \/ \E p \in Pairs \cap (Nodes \X Nodes) : UnionS(p[1], p[2])
    \/ \E v \in Nodes : RootS(v)

SpecS == Init /\ [][NextS]_vars

\* The four versions of components() side by side on one list of edges, the
\* edges remembered: a turn of the loop in each.  Up to MaxN nodes the list
\* holds fewer than MaxEdges distinct edges.
UnionD(v, w) ==
    /\ n > MaxN \/ Cardinality(edges \cup {{v, w}}) < MaxEdges
    /\ edges' = edges \cup {{v, w}}
    /\ f' = components_step(f, v, w).f
    /\ b' = balance_components_step(b, v, w).f
    /\ comp' = simple_components_step(comp, v, w).f
    /\ g' = forest_components_step(g, v, w).f
    /\ UNCHANGED <<n, op, av, aw, ret, err, pre, preb, streak, first, firstRet,
                   thr, overlap, ex>>

\* A call root(f, v) of contract.py between or after the turns; the root
\* functions of balance.py and forest.py write nothing.
RootD(v) ==
    /\ f' = root(f, v).f
    /\ UNCHANGED <<aside, n, b, edges, op, av, aw, ret, err, pre, preb, streak,
                   first, firstRet>>

NextD ==
    \/ \E p \in Pairs \cap (Nodes \X Nodes) : UnionD(p[1], p[2])
    \/ \E v \in Nodes : RootD(v)

SpecD == Init /\ [][NextD]_vars

\* The graphs reachable() is run on.  Up to MaxN nodes: every set of up to
\* MaxEdges edges.  With DeepN nodes: every set of edges of DeepPairs.
Graphs ==
    IF n <= MaxN
    THEN {es \in SUBSET {{v, w} : v \in Nodes, w \in Nodes} : Cardinality(es) <= MaxEdges}
    ELSE SUBSET {{p[1], p[2]} : p \in DeepPairs}

\* reachable(a, build_neighbours(n, es)) is called: line 20.
Search(a, es) ==
    /\ ex.pc = "off"
    /\ edges' = es
    /\ ex' = [pc |-> "loop", a |-> a, neighbors |-> build_neighbours(n, es),
              seen |-> {a}, unprocessed |-> {a},
              added |-> [i \in 1 .. n |-> IF i = a + 1 THEN 1 ELSE 0],
              turns |-> 0]
    /\ UNCHANGED <<n, f, b, op, av, aw, ret, err, pre, preb, streak, first,
                   firstRet, comp, g, thr, overlap>>

\* One turn of the while loop, lines 21-26; pop() may hand out any node of
\* unprocessed.
Visit(v) ==
    /\ ex.pc = "loop"
    /\ v \in ex.unprocessed
    /\ ex' = visit(ex, v)
    /\ UNCHANGED <<n, f, b, edges, op, av, aw, ret, err, pre, preb, streak, first,
                   firstRet, comp, g, thr, overlap>>

\* unprocessed is empty: return seen, line 27.
Return ==
    /\ ex.pc = "loop"
    /\ ex.unprocessed = {}
    /\ ex' = [ex EXCEPT !.pc = "done"]
    /\ UNCHANGED <<n, f, b, edges, op, av, aw, ret, err, pre, preb, streak, first,
                   firstRet, comp, g, thr, overlap>>

NextX ==
    \/ ex.pc = "off" /\ \E a \in Nodes : \E es \in Graphs : Search(a, es)
    \/ \E v \in Nodes : Visit(v)
    \/ Return

\* The program runs on as long as it has a step to take.
SpecX == Init /\ [][NextX]_vars /\ WF_vars(NextX)

\* The lines at which a root call is in progress.
Running == {"l60", "l64", "l65", "l72", "l73", "l73w"}

\* The edge (v, w) comes later than the edge (x, y) in the list handed to
\* components(): the edges between nearer nodes first, then by first node.
Later(x, y, v, w) == (y - x < w - v) \/ (y - x = w - v /\ x < v)

\* A turn of the loop of components() on a list of edges of DeepPairs, (av, aw)
\* the edge of the turn before.  The forest is built before the callers make
\* their calls, one call each.
UnionC(v, w) ==
    /\ \A t \in Threads : thr[t].pc = "idle"
    /\ op = "init" \/ Later(av, aw, v, w)
    /\ f' = components_step(f, v, w).f
    /\ op' = "union"
    /\ av' = v
    /\ aw' = w
    /\ UNCHANGED <<n, b, edges, ret, err, pre, preb, streak, first,
                   firstRet, comp, g, thr, overlap, ex>>

\* Caller t calls root(f, v); the calls overlap if the other call is in
\* progress.
Call(t, v) ==
    /\ thr[t].pc = "idle"
    /\ thr' = [thr EXCEPT ![t] = [NoCall EXCEPT !.pc = "l60", !.v = v]]
    /\ overlap' = (overlap \/ \E u \in Threads \ {t} : thr[u].pc \in Running)
    /\ UNCHANGED <<n, f, b, edges, op, av, aw, ret, err, pre, preb, streak, first,
                   firstRet, comp, g, ex>>

\* The call of caller t takes its next step.
Step(t) ==
    /\ thr[t].pc \in Running
    /\ LET s == root_step(f, thr[t])
       IN /\ f' = s.f
          /\ thr' = [thr EXCEPT ![t] = s.c]
    /\ UNCHANGED <<n, b, edges, op, av, aw, ret, err, pre, preb, streak, first,
                   firstRet, comp, g, overlap, ex>>

NextC ==
    \/ \E p \in DeepPairs : UnionC(p[1], p[2])
    \/ \E t \in Threads : \E v \in Nodes : Call(t, v)
    \/ \E t \in Threads : Step(t)

SpecC == Init /\ [][NextC]_vars

\* A turn of the loop of components() of contract.py, nothing remembered.
UnionQ(v, w) ==
    /\ f' = components_step(f, v, w).f
    /\ UNCHANGED <<aside, n, b, edges, op, av, aw, ret, err, pre, preb, streak,
                   first, firstRet>>

\* components() and root calls, in any order, the forest alone kept.
NextQ ==
    \/ \E p \in Pairs : UnionQ(p[1], p[2])
    \/ \E v \in Nodes : RootD(v)

SpecQ == Init /\ [][NextQ]_vars

----------------------------------------------------------------------------
(* Vocabulary of the properties *)

\* The nodes reachable from the nodes of S along the edges handed to union().
RECURSIVE Reach(_)
Reach(S) ==
    LET T == S \cup {x \in Nodes : \E y \in S : {x, y} \in edges}
    IN IF T = S THEN S ELSE Reach(T)

\* The nodes root(l, v) visits on its way up, v first, the root last.
RECURSIVE Walk(_, _, _)
Walk(l, v, fuel) ==
    IF is_size(At(l, v)) \/ fuel = 0 THEN {v}
    ELSE {v} \cup Walk(l, At(l, v), fuel - 1)

\* The number of parent pointers between v and its root.
Depth(l, v) == Cardinality(Walk(l, v, Len(l))) - 1

\* The slots holding a root marker, and their number.
RootSlots(l) == {v \in 0 .. (Len(l) - 1) : is_size(At(l, v))}

Count(l) == Cardinality(RootSlots(l))

\* What root(l, v) of contract.py returns, as the set {r}.
RootOf(l, v) == root(l, v).ret

\* What root(l, v) of balance.py returns, as the set {r}.
BalanceRootOf(l, v) == balance_root(l, v).ret

\* The last call was union(av, aw) on two nodes of different trees.
Merged ==
    /\ op = "union"
    /\ err = "none"
    /\ RootOf(pre, av) # RootOf(pre, aw)

\* l1 is l0 with the roots rv and rw linked, the smaller tree below.
LinkedBySize(l0, l1, rv, rw) ==
    \E win \in {rv, rw} : \E lose \in {rv, rw} :
        /\ win # lose
        /\ At(l1, lose) = win
        /\ At(l1, win) = to_size(size(At(l0, rv)) + size(At(l0, rw)))
        /\ size(At(l0, win)) >= size(At(l0, lose))

----------------------------------------------------------------------------
(* Properties *)

\* C1: the two ends of every edge handed to union() have the same root, right
\* after that union and after every later union and root call.
C1_UnionJoinsForGood ==
    \A e \in edges : \A v \in e : \A w \in e : same_root(f, v, w)

\* C1 witness: two edges sharing a node have been merged, and a third node
\* hangs two pointers below its root.
C1_Witness ==
    /\ \E e1 \in edges : \E e2 \in edges :
          e1 # e2 /\ Cardinality(e1 \cap e2) = 1
    /\ \E v \in Nodes : Depth(f, v) >= 2

\* C2: two nodes have the same root exactly when a path of the edges handed
\* to union() joins them.
C2_RootsAreComponents ==
    \A v \in Nodes : \A w \in Nodes :
        same_root(f, v, w) <=> (w \in Reach({v}))

\* C2 witness: some nodes are joined by a path of two edges or more, others
\* are not joined at all.
C2_Witness ==
    /\ \E v \in Nodes : \E w \in Nodes :
          w \in Reach({v}) /\ v # w /\ {v, w} \notin edges
    /\ \E v \in Nodes : \E w \in Nodes : w \notin Reach({v})

\* C3: every root slot holds the negated number of nodes whose root it is, in
\* contract.py and in balance.py.
C3_SizesExact ==
    /\ \A r \in RootSlots(f) :
          size(At(f, r)) = Cardinality({v \in Nodes : RootOf(f, v) = {r}})
    /\ \A r \in RootSlots(b) :
          size(At(b, r)) = Cardinality({v \in Nodes : BalanceRootOf(b, v) = {r}})

\* C3 witness: a union has just merged two trees into one of three nodes or
\* more.
C3_Witness ==
    /\ Merged
    /\ \E r \in RootSlots(f) : size(At(f, r)) >= 3

\* C4: from every node the walk up the parent pointers ends at a root marker
\* within n steps, in contract.py and in balance.py, and no call ran forever.
C4_WalkTerminates ==
    /\ \A v \in Nodes : climb(f, v, At(f, v), Len(f)).err = "none"
    /\ \A v \in Nodes : balance_climb(b, v, At(b, v), Len(b)).err = "none"
    /\ err # "diverge"

\* C4 witness: a root call has returned from a walk of three parent pointers.
C4_Witness ==
    /\ op = "root"
    /\ err = "none"
    /\ av \in Nodes
    /\ Depth(pre, av) >= 3

\* C5: after root(f, v) returned r, every node of the walk from v up to r,
\* v included and r excluded, points at r.
C5_FullCompression ==
    (op = "root" /\ err = "none" /\ av \in Nodes) =>
        \A x \in Walk(pre, av, Len(pre)) : ret = {x} \/ ret = {At(f, x)}

\* C6: a root call changes no node's root, no size and not the set of root
\* slots.
C6_RootKeepsRootsAndSizes ==
    (op = "root") =>
        /\ RootSlots(f) = RootSlots(pre)
        /\ \A r \in RootSlots(pre) : At(f, r) = At(pre, r)
        /\ \A x \in Nodes : RootOf(f, x) = RootOf(pre, x)

\* C6 witness: a root call that rewrote a slot.
C6_Witness ==
    /\ op = "root"
    /\ err = "none"
    /\ f # pre

\* C7: a union of two trees leaves the root of one pointing at the root of the
\* other, which holds the negated sum of the two sizes and was not the
\* strictly smaller of the two; in contract.py and in balance.py.
C7_SmallerUnderLarger ==
    Merged =>
        /\ \A rv \in RootOf(pre, av) : \A rw \in RootOf(pre, aw) :
              LinkedBySize(pre, f, rv, rw)
        /\ \A rv \in BalanceRootOf(preb, av) : \A rw \in BalanceRootOf(preb, aw) :
              LinkedBySize(preb, b, rv, rw)

\* C7 witness: a union has merged two trees of different sizes.
C7_Witness ==
    /\ Merged
    /\ \E rv \in RootOf(pre, av) : \E rw \in RootOf(pre, aw) :
          At(pre, rv) # At(pre, rw)

\* C8: a call with a node outside [0, n) ends in an error and leaves the
\* forest as it was.
C8_OutOfRangeRejected ==
    (op \in {"root", "union"} /\ (av \notin Nodes \/ aw \notin Nodes)) =>
        /\ err \in {"IndexError", "AssertionError"}
        /\ f = pre

\* C9: the number of root markers is the number of distinct roots; it is n
\* after construction, one less after a union of two trees, and the same after
\* any other union and any root call.
C9_CountIsRoots ==
    /\ Count(f) = Cardinality(UNION {RootOf(f, v) : v \in Nodes})
    /\ op = "init" => Count(f) = n
    /\ Merged => Count(f) = Count(pre) - 1
    /\ (op = "union" /\ ~Merged) => Count(f) = Count(pre)
    /\ op = "root" => Count(f) = Count(pre)

\* C9 witness: a union has just merged the last two trees of a forest of
\* three nodes or more.
C9_Witness ==
    /\ Merged
    /\ Count(f) = 1
    /\ Count(pre) = 2
    /\ n >= 3

\* C10: root calls in a row on the same node all return, and return what the
\* first returned; the third and every later one leave the forest unchanged.
C10_IdempotentCompression ==
    (op = "root" /\ av \in Nodes) =>
        /\ err = "none"
        /\ ret = firstRet
        /\ streak >= 3 => f = pre

\* C10 witness: the third root call in a row on a node whose first call
\* rewrote a slot.
C10_Witness ==
    /\ op = "root"
    /\ streak = 3
    /\ first # f

\* The size recorded for the component of x, as the set {size}.
CompSize(l, x) == {size(At(l, r)) : r \in RootOf(l, x)}

\* The sum of the sizes recorded at the root slots S of l.
RECURSIVE SumSizes(_, _)
SumSizes(l, S) ==
    IF S = {} THEN 0
    ELSE LET r == CHOOSE x \in S : TRUE
         IN size(At(l, r)) + SumSizes(l, S \ {r})

\* connected(v, w): root(f, v) == root(f, w), with the forest the two calls
\* leave behind.
connected(l, v, w) ==
    LET a == root(l, v)
        c == root(a.f, w)
    IN [f |-> c.f, val |-> a.err = "none" /\ c.err = "none" /\ a.ret = c.ret]

\* C11: a union of two nodes of one tree, union(v, v) included, raises
\* nothing and leaves the count and every node's component size unchanged.
C11_NoOpUnion ==
    (op = "union" /\ av \in Nodes /\ aw \in Nodes
        /\ RootOf(pre, av) = RootOf(pre, aw)) =>
        /\ err = "none"
        /\ Count(f) = Count(pre)
        /\ \A x \in Nodes : CompSize(f, x) = CompSize(pre, x)

\* C11 witness: a union of two different nodes of one tree that rewrote a
\* slot on its way to the root.
C11_Witness ==
    /\ op = "union"
    /\ av \in Nodes
    /\ aw \in Nodes
    /\ av # aw
    /\ RootOf(pre, av) = RootOf(pre, aw)
    /\ f # pre

\* C13: connected, evaluated call after call on the forest the calls before
\* left behind, is reflexive, symmetric and transitive.
C13_ConnectedIsEquivalence ==
    \A v \in Nodes : \A w \in Nodes :
        LET c1 == connected(f, v, v)
            c2 == connected(c1.f, v, w)
            c3 == connected(c2.f, w, v)
        IN /\ c1.val
           /\ c2.val = c3.val
           /\ \A x \in Nodes :
                 LET c4 == connected(c3.f, w, x)
                     c5 == connected(c4.f, v, x)
                 IN (c2.val /\ c4.val) => c5.val

\* C13 witness: three different nodes are connected and evaluating connected
\* on two of them rewrites a slot.
C13_Witness ==
    \E v \in Nodes : \E w \in Nodes : \E x \in Nodes :
        /\ Cardinality({v, w, x}) = 3
        /\ connected(f, v, w).val
        /\ connected(f, w, x).val
        /\ connected(f, v, w).f # f

\* C14: the sizes recorded at the root slots add up to n.
C14_SizeConservation == SumSizes(f, RootSlots(f)) = n

\* C14 witness: a union has just left two trees, both of more than one node.
C14_Witness ==
    /\ Merged
    /\ Count(f) = 2
    /\ \A r \in RootSlots(f) : size(At(f, r)) >= 2

\* C16: a node d parent pointers below its root sits in a tree of at least
\* 2^d nodes, in contract.py and in balance.py.
C16_HeightBound ==
    /\ \A x \in Nodes : \A k \in CompSize(f, x) : 2^Depth(f, x) <= k
    /\ \A x \in Nodes : \A r \in BalanceRootOf(b, x) :
          2^Depth(b, x) <= size(At(b, r))

\* C16 witness: a tree of exactly 2^3 nodes with a node three pointers deep.
C16_Witness ==
    \E x \in Nodes : Depth(b, x) = 3 /\ BalanceRootOf(b, x) # {}
        /\ \A r \in BalanceRootOf(b, x) : size(At(b, r)) = 8

\* C17: a call with nodes of [0, n) fails no assertion; every slot is a node
\* of [0, n) or a negated size of [-n, -1]; a slot that holds a parent pointer
\* before a call holds one after it.
C17_SlotsWellTyped ==
    /\ (av \in Nodes /\ aw \in Nodes) => err # "AssertionError"
    /\ \A x \in Nodes : At(f, x) \in Nodes \/ At(f, x) \in (0 - n) .. (0 - 1)
    /\ \A x \in Nodes : is_node(At(pre, x)) => is_node(At(f, x))

\* C17 witness: a union that went through both size() assertions and turned a
\* root marker into a parent pointer.
C17_Witness ==
    /\ Merged
    /\ \E x \in Nodes : is_size(At(pre, x)) /\ is_node(At(f, x))
    /\ \E x \in Nodes : is_node(At(pre, x))

\* C18: a union leaves the slot, the root and the component size of every
\* node outside the trees of its two arguments as they were.
C18_UnionFrame ==
    (op = "union" /\ av \in Nodes /\ aw \in Nodes) =>
        \A x \in Nodes :
            (RootOf(pre, x) # RootOf(pre, av) /\ RootOf(pre, x) # RootOf(pre, aw)) =>
                /\ At(f, x) = At(pre, x)
                /\ RootOf(f, x) = RootOf(pre, x)
                /\ CompSize(f, x) = CompSize(pre, x)

\* C18 witness: a union that merged two trees of more than one node each
\* while a third tree of more than one node stood by.
C18_Witness ==
    /\ Merged
    /\ is_node(At(pre, av))
    /\ is_node(At(pre, aw))
    /\ \E x \in Nodes :
          /\ RootOf(pre, x) # RootOf(pre, av)
          /\ RootOf(pre, x) # RootOf(pre, aw)
          /\ is_node(At(pre, x))

\* Same root in forest.py.
ForestSame(l, v, w) ==
    /\ forest_root(l, v).err = "none"
    /\ forest_root(l, v).ret = forest_root(l, w).ret

\* Same root in balance.py.
BalanceSame(l, v, w) ==
    /\ balance_root(l, v).err = "none"
    /\ balance_root(l, v).ret = balance_root(l, w).ret

\* C12: after every prefix of the edges the four versions agree on which
\* nodes are connected.
C12_VersionsAgree ==
    \A v \in Nodes : \A w \in Nodes :
        /\ same_root(f, v, w) <=> (At(comp, v) = At(comp, w))
        /\ (At(comp, v) = At(comp, w)) <=> ForestSame(g, v, w)
        /\ ForestSame(g, v, w) <=> BalanceSame(b, v, w)

\* C12 witness: nodes are connected by more than one edge, contract.py's
\* forest has been compressed away from balance.py's, and forest.py has
\* picked another root than balance.py.
C12_Witness ==
    /\ \E v \in Nodes : \E w \in Nodes :
          At(comp, v) = At(comp, w) /\ v # w /\ {v, w} \notin edges
    /\ f # b
    /\ \E v \in Nodes : forest_root(g, v).ret # balance_root(b, v).ret

\* C19: in simple.py comp[v] is the smallest node of the component of v in
\* the graph of the edges, so comp[comp[v]] = comp[v] and comp[v] <= v.
C19_SmallestLabel ==
    \A v \in Nodes :
        /\ At(comp, v) \in Reach({v})
        /\ \A x \in Reach({v}) : At(comp, v) <= x
        /\ At(comp, At(comp, v)) = At(comp, v)
        /\ At(comp, v) <= v

\* C19 witness: a component of three nodes or more whose smallest node was
\* not an end of the first edge of the component, beside another component.
C19_Witness ==
    /\ \E v \in Nodes :
          /\ Cardinality(Reach({v})) >= 3
          /\ At(comp, v) < v
          /\ \E x \in Reach({v}) : x # v /\ x # At(comp, v) /\ {x, At(comp, v)} \notin edges
    /\ \E v \in Nodes : \E w \in Nodes : At(comp, v) # At(comp, w)

\* What holds of reachable() at every turn: a is seen, whatever waits in
\* unprocessed is seen, no node was added to unprocessed twice, and what is
\* returned is the set of nodes joined to a by a path of edges.
SearchSound ==
    (ex.pc # "off") =>
        /\ ex.a \in ex.seen
        /\ ex.unprocessed \subseteq ex.seen
        /\ \A w \in Nodes : At(ex.added, w) <= 1
        /\ ex.pc = "done" => ex.seen = Reach({ex.a})

\* C20: reachable() keeps SearchSound at every turn; it takes no more turns of
\* its loop than there are nodes seen, and until it has returned it has a
\* next step, so it returns.
C20_ReachableTerminates ==
    /\ SearchSound
    /\ ex.turns <= Cardinality(ex.seen)
    /\ ex.seen \subseteq Nodes
    /\ ex.pc = "loop" => ENABLED NextX

\* C20 witness: reachable() has returned three nodes or more of a graph with
\* a cycle, and not every node.
C20_Witness ==
    /\ ex.pc = "done"
    /\ Cardinality(ex.seen) >= 3
    /\ ex.seen # Nodes
    /\ Cardinality({e \in edges : e \subseteq ex.seen}) >= Cardinality(ex.seen)

\* The forest invariants of l: every walk up the parent pointers ends at a
\* root marker, no slot points at itself, and every root marker holds the
\* number of nodes below it.
ForestOK(l) ==
    /\ \A v \in Nodes : At(l, v) # v
    /\ \A v \in Nodes : climb(l, v, At(l, v), Len(l)).err = "none"
    /\ LET up == [v \in Nodes |-> RootOf(l, v)]
       IN \A r \in RootSlots(l) :
             size(At(l, r)) = Cardinality({v \in Nodes : up[v] = {r}})

\* C15: root calls that run one after the other keep the forest invariants at
\* every step, and each returns the root of its node; the invariants are lost
\* only where two root calls were in progress together.
C15_RootIsAWriter ==
    ~overlap =>
        /\ ForestOK(f)
        /\ \A t \in Threads :
              /\ thr[t].pc \in Running \cup {"idle", "done"}
              /\ thr[t].pc = "done" =>
                    \E r \in RootSlots(f) : thr[t].ret = {r} /\ RootOf(f, thr[t].v) = {r}

\* C15 witness: two root calls overlapped and a root marker was overwritten by
\* a pointer of the slot to itself, the size of its tree lost.
C15_Witness ==
    /\ overlap
    /\ \E r \in Nodes : At(f, r) = r
    /\ \A r \in RootSlots(f) : size(At(f, r)) = 1

====
